---- MODULE Spec2Model ----
(***************************************************************************)
(* Model of hooks/lib/ios/projectEntitlements.js: the hook that writes the *)
(* debug and release iOS entitlements files with the associated-domains    *)
(* list built from the hosts of config.xml.                                *)
(*                                                                         *)
(* A JavaScript object is an insertion-ordered sequence of <<key, value>>  *)
(* pairs with distinct keys.  A file on disk is missing, holds text that   *)
(* plist.parse rejects, or holds a property list whose top-level <dict>    *)
(* is the sequence of its <key>/value entries in document order.           *)
(***************************************************************************)
EXTENDS Integers, Sequences, FiniteSets, TLC

VARIABLES
  context,                      \* module variable, line 15
  projectName,                  \* module variable, line 17
  debugEntitlementsFilePath,    \* module variable, line 18
  releaseEntitlementsFilePath,  \* module variable, line 19
  pluginPreferences,            \* argument of generateEntitlements
  currentDebugEntitlements,     \* local of generateEntitlements (object reference)
  currentReleaseEntitlements,   \* local of generateEntitlements (object reference)
  newDebugEntitlements,         \* local of generateEntitlements (object reference)
  newReleaseEntitlements,       \* local of generateEntitlements (object reference)
  heap,                         \* the objects the references point to
  debugPlistContent,            \* local of saveContentToEntitlementsFile
  releasePlistContent,          \* local of saveContentToEntitlementsFile
  pc,                           \* position in generateEntitlements
  error,                        \* the exception that left generateEntitlements, if any
  fs,                           \* the files on disk, by path
  dirs,                         \* the directories on disk
  ops,                          \* file-system calls of the current invocation, in order
  fsAtStart,                    \* fs when the current invocation was entered
  envFault,                     \* a file-system call of this invocation failed on its own
  faults,                       \* file-system calls that failed on their own, in this process
  repeat,                       \* this invocation repeats the previous one (same arguments)
  runs                          \* invocations so far in this process

vars == << context, projectName, debugEntitlementsFilePath,
           releaseEntitlementsFilePath, pluginPreferences,
           currentDebugEntitlements, currentReleaseEntitlements,
           newDebugEntitlements, newReleaseEntitlements, heap,
           debugPlistContent, releasePlistContent, pc, error, fs, dirs, ops,
           fsAtStart, envFault, faults, repeat, runs >>

----------------------------------------------------------------------------
(* Bounds *)

MaxHosts == 2

MaxRuns == 2

MaxFaults == 1

----------------------------------------------------------------------------
(* Values *)

ASSOCIATED_DOMAINS == "com.apple.developer.associated-domains"

OTHER_KEY == "other-key"

HostNames == {"a.com", "b.com"}

Hosts == [name : HostNames]

HostLists == UNION {[1..n -> Hosts] : n \in 0..MaxHosts}

Preferences == [hosts : HostLists]

NoPreferences == [hosts |-> <<>>]

\* property-list values: a string or an array of strings
Str(s) == [type |-> "string", str |-> s, items |-> <<>>]

Arr(l) == [type |-> "array", str |-> "", items |-> l]

\* contexts handed over by cordova: opts.projectRoot, and the project name
\* that config.xml of that project declares
ContextA == [opts |-> [projectRoot |-> "/rootA"], configName |-> "AppA"]

ContextB == [opts |-> [projectRoot |-> "/rootB"], configName |-> "AppB"]

NoContext == [opts |-> [projectRoot |-> ""], configName |-> ""]

Contexts == {ContextA, ContextB}

Undefined == "undefined"

UndefinedPath == [root |-> "", name |-> "", file |-> ""]

DEBUG_FILE == "Entitlements-Debug.plist"

RELEASE_FILE == "Entitlements-Release.plist"

Paths == [root : {c.opts.projectRoot : c \in Contexts},
          name : {c.configName : c \in Contexts},
          file : {DEBUG_FILE, RELEASE_FILE}]

\* path.join(root, 'platforms', 'ios', name, file)
PathJoin(root, name, file) == [root |-> root, name |-> name, file |-> file]

\* path.dirname(p)
Dirname(p) == [root |-> p.root, name |-> p.name]

Missing == [kind |-> "missing", dict |-> <<>>]

Malformed == [kind |-> "malformed", dict |-> <<>>]

PlistFile(entries) == [kind |-> "plist", dict |-> entries]

NoContent == [kind |-> "none", dict |-> <<>>]

----------------------------------------------------------------------------
(* JavaScript objects: insertion-ordered <<key, value>> pairs *)

Keys(obj) == {obj[i][1] : i \in 1..Len(obj)}

HasKey(obj, k) == k \in Keys(obj)

Get(obj, k) == obj[CHOOSE i \in 1..Len(obj) : obj[i][1] = k][2]

\* obj[k] = v: an existing key keeps its place, a new key goes last
Put(obj, k, v) ==
  IF HasKey(obj, k)
    THEN [i \in 1..Len(obj) |-> IF obj[i][1] = k THEN <<k, v>> ELSE obj[i]]
    ELSE Append(obj, <<k, v>>)

\* Array.prototype.indexOf, 0-based, -1 when absent
IndexOf(list, x) ==
  IF \E i \in 1..Len(list) : list[i] = x
    THEN (CHOOSE i \in 1..Len(list) :
            list[i] = x /\ \A j \in 1..(i - 1) : list[j] # x) - 1
    ELSE -1

----------------------------------------------------------------------------
(* plist library, as the hook uses it *)

RECURSIVE ParseEntries(_, _)
ParseEntries(entries, obj) ==
  IF entries = <<>> THEN obj
  ELSE ParseEntries(Tail(entries), Put(obj, Head(entries)[1], Head(entries)[2]))

\* plist.parse(content) of a well-formed document: each <key> of the
\* top-level <dict> is assigned in document order
PlistParse(content) == ParseEntries(content.dict, <<>>)

\* plist.parse(content) throws
PlistParseThrows(content) == content.kind = "malformed"

\* plist.build(obj): one <key>/value entry per own property, in property order
PlistBuild(obj) == PlistFile(obj)

----------------------------------------------------------------------------
(* Pure functions of the hook *)

\* defaultEntitlementsFile returning a template with a key of its own
DefaultEntitlementsTemplate == << <<"get-task-allow", Str("true")>> >>

DefaultEntitlementsFile == <<>>

DomainsListEntryForHost(host) == "applinks:" \o host.name

\* ForEachHost looking up host.name instead of the link: never found
RECURSIVE ForEachHostLookupByName(_, _)
ForEachHostLookupByName(hosts, domainsList) ==
  IF hosts = <<>> THEN domainsList
  ELSE LET link == DomainsListEntryForHost(Head(hosts))
       IN ForEachHostLookupByName(Tail(hosts),
                      IF IndexOf(domainsList, Head(hosts).name) = -1
                        THEN Append(domainsList, link)
                        ELSE domainsList)

RECURSIVE ForEachHost(_, _)
ForEachHost(hosts, domainsList) ==
  IF hosts = <<>> THEN domainsList
  ELSE LET link == DomainsListEntryForHost(Head(hosts))
       IN ForEachHost(Tail(hosts),
                      IF IndexOf(domainsList, link) = -1
                        THEN Append(domainsList, link)
                        ELSE domainsList)

GenerateAssociatedDomainsContent(prefs) == ForEachHost(prefs.hosts, <<>>)

\* injectPreferences returning a new object that holds the key alone
InjectPreferencesIntoNewObject(currentEntitlements, prefs) ==
  << <<ASSOCIATED_DOMAINS, Arr(GenerateAssociatedDomainsContent(prefs))>> >>

\* injectPreferences pushing the links onto the list already under the key
InjectPreferencesAppending(currentEntitlements, prefs) ==
  Put(currentEntitlements, ASSOCIATED_DOMAINS,
      Arr((IF HasKey(currentEntitlements, ASSOCIATED_DOMAINS)
             THEN Get(currentEntitlements, ASSOCIATED_DOMAINS).items
             ELSE <<>>)
          \o GenerateAssociatedDomainsContent(prefs)))

\* the object after injectPreferences mutated it (the same object is returned)
InjectPreferences(currentEntitlements, prefs) ==
  Put(currentEntitlements, ASSOCIATED_DOMAINS,
      Arr(GenerateAssociatedDomainsContent(prefs)))

----------------------------------------------------------------------------
(* Path helpers: values returned, and the caches they leave behind *)

GetProjectRoot == context.opts.projectRoot

\* new ConfigXmlHelper(context).getProjectName()
ConfigXmlHelperGetProjectName(ctx) == ctx.configName

GetProjectName ==
  IF projectName = Undefined
    THEN ConfigXmlHelperGetProjectName(context)
    ELSE projectName

\* pathToDebugEntitlementsFile without the memo
PathToDebugRecomputed ==
  PathJoin(GetProjectRoot, ConfigXmlHelperGetProjectName(context), DEBUG_FILE)

PathToDebugEntitlementsFile ==
  IF debugEntitlementsFilePath = UndefinedPath
    THEN PathJoin(GetProjectRoot, GetProjectName, DEBUG_FILE)
    ELSE debugEntitlementsFilePath

PathToReleaseEntitlementsFile ==
  IF releaseEntitlementsFilePath = UndefinedPath
    THEN PathJoin(GetProjectRoot, GetProjectName, RELEASE_FILE)
    ELSE releaseEntitlementsFilePath

\* projectName after pathToDebugEntitlementsFile(): getProjectName runs only
\* when the path is not cached yet
ProjectNameAfterDebugPath ==
  IF debugEntitlementsFilePath = UndefinedPath THEN GetProjectName ELSE projectName

ProjectNameAfterReleasePath ==
  IF releaseEntitlementsFilePath = UndefinedPath THEN GetProjectName ELSE projectName

----------------------------------------------------------------------------
(* State *)

\* what a project's entitlements file may hold before the hook first runs
InitialFiles ==
  { Missing,
    Malformed,
    PlistFile(<< <<OTHER_KEY, Str("value")>> >>),
    PlistFile(<< <<ASSOCIATED_DOMAINS, Arr(<<"applinks:old.com", "applinks:a.com">>)>>,
                 <<"aps-environment", Str("development")>> >>) }

\* p is one of the two entitlements files of the project of ctx
IsProjectPath(ctx, p) ==
  p.root = ctx.opts.projectRoot /\ p.name = ConfigXmlHelperGetProjectName(ctx)

\* the disk when the process starts: only the project of ContextA has been
\* built before
ProjectDisks ==
  {d \in [Paths -> InitialFiles] :
     \A p \in Paths : ~IsProjectPath(ContextA, p) => d[p] = Missing}

\* two projects on the disk, the one of ContextB with both files in place
TwoProjectDisks ==
  {d \in [Paths -> {Missing, PlistFile(<< <<OTHER_KEY, Str("value")>> >>)}] :
     \A p \in Paths : /\ IsProjectPath(ContextB, p) => d[p] # Missing
                      /\ (~IsProjectPath(ContextA, p) /\ ~IsProjectPath(ContextB, p))
                           => d[p] = Missing}

InitOn(disks) ==
  /\ fs \in disks
  /\ context = NoContext
  /\ projectName = Undefined
  /\ debugEntitlementsFilePath = UndefinedPath
  /\ releaseEntitlementsFilePath = UndefinedPath
  /\ pluginPreferences = NoPreferences
  /\ currentDebugEntitlements = 0
  /\ currentReleaseEntitlements = 0
  /\ newDebugEntitlements = 0
  /\ newReleaseEntitlements = 0
  /\ heap = <<>>
  /\ debugPlistContent = NoContent
  /\ releasePlistContent = NoContent
  /\ pc = "idle"
  /\ error = "none"
  /\ dirs = {Dirname(p) : p \in {q \in Paths : fs[q] # Missing}}
  /\ ops = <<>>
  /\ fsAtStart = fs
  /\ envFault = FALSE
  /\ faults = 0
  /\ repeat = FALSE
  /\ runs = 0

Init == InitOn(ProjectDisks)

InitTwoProjects == InitOn(TwoProjectDisks)

Log(op, path, ok) == Append(ops, [op |-> op, path |-> path, ok |-> ok])

Locals == << currentDebugEntitlements, currentReleaseEntitlements,
             newDebugEntitlements, newReleaseEntitlements, heap,
             debugPlistContent, releasePlistContent >>

Caches == << projectName, debugEntitlementsFilePath, releaseEntitlementsFilePath >>

History == << fsAtStart, repeat, runs >>

\* a file-system call fails although the model's disk would allow it
RaiseFault == faults < MaxFaults /\ faults' = faults + 1 /\ envFault' = TRUE

NoFault == UNCHANGED << faults, envFault >>

----------------------------------------------------------------------------
(* generateEntitlements, statement by statement *)

\* line 34: entry, context = cordovaContext
GenerateEntitlements(cordovaContext, prefs) ==
  /\ pc \in {"idle", "returned", "thrown"}
  /\ runs < MaxRuns
  /\ context' = cordovaContext
  /\ pluginPreferences' = prefs
  /\ currentDebugEntitlements' = 0
  /\ currentReleaseEntitlements' = 0
  /\ newDebugEntitlements' = 0
  /\ newReleaseEntitlements' = 0
  /\ heap' = <<>>
  /\ debugPlistContent' = NoContent
  /\ releasePlistContent' = NoContent
  /\ error' = "none"
  /\ ops' = <<>>
  /\ fsAtStart' = fs
  /\ envFault' = FALSE
  /\ repeat' = (runs > 0 /\ ~envFault /\ prefs = pluginPreferences
                         /\ cordovaContext = context)
  /\ runs' = runs + 1
  /\ pc' = "getDebug"
  /\ UNCHANGED << Caches, fs, dirs, faults >>

\* plist.parse moved inside the try block: a parse error yields the default
ParseFileContentCaught(content) ==
  IF PlistParseThrows(content)
    THEN [thrown |-> FALSE, value |-> DefaultEntitlementsFile]
    ELSE [thrown |-> FALSE, value |-> PlistParse(content)]

\* lines 83 and 101: return plist.parse(content), after the try block
ParseFileContent(content) ==
  IF PlistParseThrows(content)
    THEN [thrown |-> TRUE, value |-> <<>>]
    ELSE [thrown |-> FALSE, value |-> PlistParse(content)]

\* line 36 and lines 73-84
GetDebugEntitlementsFileContent ==
  /\ pc = "getDebug"
  /\ LET pathToFile == PathToDebugEntitlementsFile
         parsed == ParseFileContent(fs[pathToFile])
     IN /\ debugEntitlementsFilePath' = pathToFile
        /\ projectName' = ProjectNameAfterDebugPath
        /\ \/ \* readFileSync throws (no such file, or a failing read): catch
              /\ \/ fs[pathToFile].kind = "missing" /\ NoFault
                 \/ fs[pathToFile].kind # "missing" /\ RaiseFault
              /\ heap' = Append(heap, DefaultEntitlementsFile)
              /\ currentDebugEntitlements' = Len(heap')
              /\ ops' = Log("read", pathToFile, FALSE)
              /\ pc' = "getRelease"
              /\ UNCHANGED error
           \/ \* the file is read and plist.parse returns the document
              /\ fs[pathToFile].kind # "missing"
              /\ ~parsed.thrown
              /\ heap' = Append(heap, parsed.value)
              /\ currentDebugEntitlements' = Len(heap')
              /\ ops' = Log("read", pathToFile, TRUE)
              /\ pc' = "getRelease"
              /\ NoFault
              /\ UNCHANGED error
           \/ \* the file is read and plist.parse throws
              /\ fs[pathToFile].kind # "missing"
              /\ parsed.thrown
              /\ ops' = Log("read", pathToFile, TRUE)
              /\ error' = "parse"
              /\ pc' = "thrown"
              /\ NoFault
              /\ UNCHANGED << heap, currentDebugEntitlements >>
  /\ UNCHANGED << context, pluginPreferences, releaseEntitlementsFilePath,
                  currentReleaseEntitlements, newDebugEntitlements,
                  newReleaseEntitlements, debugPlistContent,
                  releasePlistContent, fs, dirs, History >>

\* line 37 and lines 91-102
GetReleaseEntitlementsFileContent ==
  /\ pc = "getRelease"
  /\ LET pathToFile == PathToReleaseEntitlementsFile
         parsed == ParseFileContent(fs[pathToFile])
     IN /\ releaseEntitlementsFilePath' = pathToFile
        /\ projectName' = ProjectNameAfterReleasePath
        /\ \/ /\ \/ fs[pathToFile].kind = "missing" /\ NoFault
                 \/ fs[pathToFile].kind # "missing" /\ RaiseFault
              /\ heap' = Append(heap, DefaultEntitlementsFile)
              /\ currentReleaseEntitlements' = Len(heap')
              /\ ops' = Log("read", pathToFile, FALSE)
              /\ pc' = "injectDebug"
              /\ UNCHANGED error
           \/ /\ fs[pathToFile].kind # "missing"
              /\ ~parsed.thrown
              /\ heap' = Append(heap, parsed.value)
              /\ currentReleaseEntitlements' = Len(heap')
              /\ ops' = Log("read", pathToFile, TRUE)
              /\ pc' = "injectDebug"
              /\ NoFault
              /\ UNCHANGED error
           \/ /\ fs[pathToFile].kind # "missing"
              /\ parsed.thrown
              /\ ops' = Log("read", pathToFile, TRUE)
              /\ error' = "parse"
              /\ pc' = "thrown"
              /\ NoFault
              /\ UNCHANGED << heap, currentReleaseEntitlements >>
  /\ UNCHANGED << context, pluginPreferences, debugEntitlementsFilePath,
                  currentDebugEntitlements, newDebugEntitlements,
                  newReleaseEntitlements, debugPlistContent,
                  releasePlistContent, fs, dirs, History >>

\* the object line 38 passes to injectPreferences
DebugInjectArgument == currentDebugEntitlements

\* line 39 passing the debug object
ReleaseInjectDebugObject == currentDebugEntitlements

\* the object line 39 passes to injectPreferences
ReleaseInjectArgument == currentReleaseEntitlements

\* line 38 and lines 120-127: the object is mutated in place and returned
InjectDebug ==
  /\ pc = "injectDebug"
  /\ LET ref == DebugInjectArgument
     IN /\ heap' = [heap EXCEPT ![ref] = InjectPreferences(heap[ref], pluginPreferences)]
        /\ newDebugEntitlements' = ref
  /\ pc' = "injectRelease"
  /\ UNCHANGED << context, Caches, pluginPreferences, currentDebugEntitlements,
                  currentReleaseEntitlements, newReleaseEntitlements,
                  debugPlistContent, releasePlistContent, error, fs, dirs, ops,
                  envFault, faults, History >>

\* line 39 and lines 120-127
InjectRelease ==
  /\ pc = "injectRelease"
  /\ LET ref == ReleaseInjectArgument
     IN /\ heap' = [heap EXCEPT ![ref] = InjectPreferences(heap[ref], pluginPreferences)]
        /\ newReleaseEntitlements' = ref
  /\ pc' = "build"
  /\ UNCHANGED << context, Caches, pluginPreferences, currentDebugEntitlements,
                  currentReleaseEntitlements, newDebugEntitlements,
                  debugPlistContent, releasePlistContent, error, fs, dirs, ops,
                  envFault, faults, History >>

\* lines 54-57: both documents are serialized, both paths are looked up
BuildPlists ==
  /\ pc = "build"
  /\ debugPlistContent' = PlistBuild(heap[newDebugEntitlements])
  /\ releasePlistContent' = PlistBuild(heap[newReleaseEntitlements])
  /\ debugEntitlementsFilePath' = PathToDebugEntitlementsFile
  /\ releaseEntitlementsFilePath' = PathToReleaseEntitlementsFile
  /\ projectName' = GetProjectName
  /\ pc' = "mkpathDebug"
  /\ UNCHANGED << context, pluginPreferences, currentDebugEntitlements,
                  currentReleaseEntitlements, newDebugEntitlements,
                  newReleaseEntitlements, heap, error, fs, dirs, ops,
                  envFault, faults, History >>

\* line 60 also creating the file it is about to write
MkpathDebugTouchesFile ==
  /\ pc = "mkpathDebug"
  /\ LET debugFilePath == PathToDebugEntitlementsFile
     IN \/ /\ dirs' = dirs \cup {Dirname(debugFilePath)}
           /\ fs' = [fs EXCEPT ![debugFilePath] = PlistFile(<<>>)]
           /\ ops' = Log("mkpath", debugFilePath, TRUE)
           /\ pc' = "mkpathRelease"
           /\ NoFault
           /\ UNCHANGED error
        \/ /\ ops' = Log("mkpath", debugFilePath, FALSE)
           /\ error' = "mkpath"
           /\ RaiseFault
           /\ pc' = "thrown"
           /\ UNCHANGED << dirs, fs >>
  /\ UNCHANGED << context, Caches, pluginPreferences, Locals, History >>

\* line 60
MkpathDebug ==
  /\ pc = "mkpathDebug"
  /\ LET debugFilePath == PathToDebugEntitlementsFile
     IN \/ /\ dirs' = dirs \cup {Dirname(debugFilePath)}
           /\ ops' = Log("mkpath", debugFilePath, TRUE)
           /\ pc' = "mkpathRelease"
           /\ NoFault
           /\ UNCHANGED error
        \/ /\ ops' = Log("mkpath", debugFilePath, FALSE)
           /\ error' = "mkpath"
           /\ RaiseFault
           /\ pc' = "thrown"
           /\ UNCHANGED dirs
  /\ UNCHANGED << context, Caches, pluginPreferences, Locals, fs, History >>

\* line 61 left out
MkpathReleaseLeftOut ==
  /\ pc = "mkpathRelease"
  /\ pc' = "writeDebug"
  /\ UNCHANGED << context, Caches, pluginPreferences, Locals, fs, dirs, ops,
                  error, envFault, faults, History >>

\* line 61
MkpathRelease ==
  /\ pc = "mkpathRelease"
  /\ LET releaseFilePath == PathToReleaseEntitlementsFile
     IN \/ /\ dirs' = dirs \cup {Dirname(releaseFilePath)}
           /\ ops' = Log("mkpath", releaseFilePath, TRUE)
           /\ pc' = "writeDebug"
           /\ NoFault
           /\ UNCHANGED error
        \/ /\ ops' = Log("mkpath", releaseFilePath, FALSE)
           /\ error' = "mkpath"
           /\ RaiseFault
           /\ pc' = "thrown"
           /\ UNCHANGED dirs
  /\ UNCHANGED << context, Caches, pluginPreferences, Locals, fs, History >>

\* what a failed writeFileSync may leave at the path: the file as it
\* was, or a file cut short
AfterFailedWrite(p) == {fs, [fs EXCEPT ![p] = Malformed]}

\* line 64 inside a try block that swallows the error
WriteDebugCaught ==
  /\ pc = "writeDebug"
  /\ LET debugFilePath == PathToDebugEntitlementsFile
     IN \/ /\ Dirname(debugFilePath) \in dirs
           /\ fs' = [fs EXCEPT ![debugFilePath] = debugPlistContent]
           /\ ops' = Log("write", debugFilePath, TRUE)
           /\ NoFault
        \/ /\ fs' \in AfterFailedWrite(debugFilePath)
           /\ ops' = Log("write", debugFilePath, FALSE)
           /\ RaiseFault
  /\ pc' = "writeRelease"
  /\ UNCHANGED << context, Caches, pluginPreferences, Locals, dirs, error,
                  History >>

\* line 64
WriteDebug ==
  /\ pc = "writeDebug"
  /\ LET debugFilePath == PathToDebugEntitlementsFile
     IN \/ /\ Dirname(debugFilePath) \in dirs
           /\ fs' = [fs EXCEPT ![debugFilePath] = debugPlistContent]
           /\ ops' = Log("write", debugFilePath, TRUE)
           /\ pc' = "writeRelease"
           /\ NoFault
           /\ UNCHANGED error
        \/ /\ fs' \in AfterFailedWrite(debugFilePath)
           /\ ops' = Log("write", debugFilePath, FALSE)
           /\ error' = "write"
           /\ RaiseFault
           /\ pc' = "thrown"
  /\ UNCHANGED << context, Caches, pluginPreferences, Locals, dirs, History >>

\* line 65, then generateEntitlements returns
WriteRelease ==
  /\ pc = "writeRelease"
  /\ LET releaseFilePath == PathToReleaseEntitlementsFile
     IN \/ /\ Dirname(releaseFilePath) \in dirs
           /\ fs' = [fs EXCEPT ![releaseFilePath] = releasePlistContent]
           /\ ops' = Log("write", releaseFilePath, TRUE)
           /\ pc' = "returned"
           /\ NoFault
           /\ UNCHANGED error
        \/ /\ fs' \in AfterFailedWrite(releaseFilePath)
           /\ ops' = Log("write", releaseFilePath, FALSE)
           /\ error' = "write"
           /\ RaiseFault
           /\ pc' = "thrown"
  /\ UNCHANGED << context, Caches, pluginPreferences, Locals, dirs, History >>

\* the statements of one invocation, after its entry
Step ==
  \/ GetDebugEntitlementsFileContent
  \/ GetReleaseEntitlementsFileContent
  \/ InjectDebug
  \/ InjectRelease
  \/ BuildPlists
  \/ MkpathDebug
  \/ MkpathRelease
  \/ WriteDebug
  \/ WriteRelease

\* a process whose invocations all come from the build of one project
Next ==
  \/ \E prefs \in Preferences : GenerateEntitlements(ContextA, prefs)
  \/ Step

Spec == Init /\ [][Next]_vars

\* a process that is handed the contexts of two projects
NextTwoProjects ==
  \/ \E c \in Contexts, prefs \in Preferences : GenerateEntitlements(c, prefs)
  \/ Step

SpecTwoProjects == InitTwoProjects /\ [][NextTwoProjects]_vars

----------------------------------------------------------------------------
(* Properties *)

\* the two files the invocation works on
Targets == {debugEntitlementsFilePath, releaseEntitlementsFilePath}

Reads == {i \in 1..Len(ops) : ops[i].op = "read"}

Writes == {i \in 1..Len(ops) : ops[i].op = "write"}

\* the file at p was read by this invocation
ReadOk(p) == \E i \in Reads : ops[i].path = p /\ ops[i].ok

\* the document the invocation starts from for the file at p
StartDocument(p) == IF ReadOk(p) THEN PlistParse(fsAtStart[p]) ELSE <<>>

OtherKeys(entries) == Keys(entries) \ {ASSOCIATED_DOMAINS}

RECURSIVE DistinctInOrder(_)
DistinctInOrder(names) ==
  IF names = <<>> THEN <<>>
  ELSE <<Head(names)>>
         \o DistinctInOrder(SelectSeq(Tail(names), LAMBDA n : n # Head(names)))

\* 'applinks:<name>' for each distinct name of H, in first-occurrence order
ExpectedDomains(H) ==
  LET d == DistinctInOrder([i \in 1..Len(H) |-> H[i].name])
  IN [i \in 1..Len(d) |-> "applinks:" \o d[i]]

\* C1: after a successful generate both written documents hold, under the
\* associated-domains key, exactly 'applinks:<name>' for each distinct name of
\* the host list in first-occurrence order; nothing of a prior value remains,
\* and for an empty host list the key is present with an empty list.
C1_DomainsAreTheDistinctHosts ==
  pc = "returned" =>
    \A p \in Targets :
      /\ fs[p].kind = "plist"
      /\ Cardinality({i \in 1..Len(fs[p].dict) :
                        fs[p].dict[i][1] = ASSOCIATED_DOMAINS}) = 1
      /\ Get(fs[p].dict, ASSOCIATED_DOMAINS)
           = Arr(ExpectedDomains(pluginPreferences.hosts))

C1_Witness ==
  /\ pc = "returned"
  /\ Len(pluginPreferences.hosts) = 2
  /\ pluginPreferences.hosts[1] = pluginPreferences.hosts[2]
  /\ HasKey(fsAtStart[debugEntitlementsFilePath].dict, ASSOCIATED_DOMAINS)
  /\ ReadOk(debugEntitlementsFilePath)

\* C2: for a file that existed and was parsed, every key other than the
\* associated-domains key has in the written document exactly the value it had
\* in the file before the run; no other key is added or removed.
C2_OtherKeysUnchanged ==
  pc = "returned" =>
    \A p \in Targets :
      (fsAtStart[p].kind = "plist" /\ ReadOk(p)) =>
        /\ OtherKeys(fs[p].dict) = OtherKeys(fsAtStart[p].dict)
        /\ \A k \in OtherKeys(fsAtStart[p].dict) :
             Get(fs[p].dict, k) = Get(fsAtStart[p].dict, k)

C2_Witness ==
  /\ pc = "returned"
  /\ ReadOk(releaseEntitlementsFilePath)
  /\ HasKey(fsAtStart[releaseEntitlementsFilePath].dict, OTHER_KEY)
  /\ ~HasKey(fsAtStart[releaseEntitlementsFilePath].dict, ASSOCIATED_DOMAINS)
  /\ pluginPreferences.hosts # <<>>

\* C3: an invocation that repeats the previous one (same host list, same
\* context, no file-system call failing on its own in either) leaves every
\* file with the content it had after the previous one.
C3_Idempotent ==
  (pc \in {"returned", "thrown"} /\ repeat /\ ~envFault) => fs = fsAtStart

C3_Witness ==
  /\ pc = "returned"
  /\ repeat
  /\ ~envFault
  /\ Len(pluginPreferences.hosts) = 2
  /\ HasKey(fs[debugEntitlementsFilePath].dict, OTHER_KEY)

\* C4: a missing file is no error: an invocation throws only when a file it
\* read is malformed or a file-system call failed on its own; after a
\* successful run both files exist, and a file that was missing holds the
\* associated-domains key and nothing else.
C4_MissingFileIsNoError ==
  /\ pc = "returned" =>
       \A p \in Targets :
         /\ fs[p].kind = "plist"
         /\ fsAtStart[p] = Missing =>
              /\ Len(fs[p].dict) = 1
              /\ Keys(fs[p].dict) = {ASSOCIATED_DOMAINS}
  /\ (pc = "thrown" /\ ~envFault) =>
       \E i \in Reads : fsAtStart[ops[i].path].kind = "malformed"
  /\ \A i \in Reads : fsAtStart[ops[i].path] = Missing => ~ops[i].ok

C4_Witness ==
  /\ pc = "returned"
  /\ fsAtStart[debugEntitlementsFilePath] = Missing
  /\ HasKey(fsAtStart[releaseEntitlementsFilePath].dict, OTHER_KEY)
  /\ ReadOk(releaseEntitlementsFilePath)

\* C5, as claimed: a file that was read but cannot be parsed raises no error
\* (it is replaced by an empty document like a missing one).
C5_MalformedRaisesNoError ==
  \A i \in Reads :
    (ops[i].ok /\ fsAtStart[ops[i].path].kind = "malformed") => error # "parse"

\* C5, amended: plist.parse runs after the try block, so a file that was read
\* but cannot be parsed makes generate throw the parse error at once; no
\* further file-system call is made and every file keeps its content.
C5_MalformedFileThrows ==
  \A i \in Reads :
    (ops[i].ok /\ fsAtStart[ops[i].path].kind = "malformed") =>
      /\ pc = "thrown"
      /\ error = "parse"
      /\ i = Len(ops)
      /\ fs = fsAtStart

C5_Witness ==
  /\ error = "parse"
  /\ Len(ops) = 2
  /\ ops[1].ok
  /\ fsAtStart[ops[2].path] = Malformed

\* C6: a failed directory creation or file write is the last file-system
\* call of its invocation, which ends by throwing that error.
C6_WriteFailureIsFatal ==
  \A i \in 1..Len(ops) :
    (ops[i].op \in {"mkpath", "write"} /\ ~ops[i].ok) =>
      /\ i = Len(ops)
      /\ pc = "thrown"
      /\ error = ops[i].op

C6_Witness ==
  /\ Len(ops) = 5
  /\ ops[5].op = "write"
  /\ ~ops[5].ok
  /\ fs[releaseEntitlementsFilePath] = fsAtStart[releaseEntitlementsFilePath]

\* the debug and release paths of a context
OwnPaths(ctx) ==
  {PathJoin(ctx.opts.projectRoot, ConfigXmlHelperGetProjectName(ctx), f) :
     f \in {DEBUG_FILE, RELEASE_FILE}}

\* C7, as claimed: every file-system call of an invocation goes to the debug
\* or release path of that invocation's own context.
C7_CallsUseOwnContext ==
  \A i \in 1..Len(ops) : ops[i].path \in OwnPaths(context)

\* C7, amended: the project name and the two paths are kept in module
\* variables; once set they never change, and every file-system call of every
\* later invocation goes to the kept paths whatever its context.
C7_PathsAreMemoized ==
  /\ [](\A i \in 1..Len(ops) : ops[i].path \in Targets)
  /\ [][/\ projectName # Undefined => projectName' = projectName
        /\ debugEntitlementsFilePath # UndefinedPath
             => debugEntitlementsFilePath' = debugEntitlementsFilePath
        /\ releaseEntitlementsFilePath # UndefinedPath
             => releaseEntitlementsFilePath' = releaseEntitlementsFilePath]_vars

C7_Witness ==
  /\ runs = 2
  /\ pc = "returned"
  /\ context = ContextB
  /\ debugEntitlementsFilePath \in OwnPaths(ContextA)
  /\ releaseEntitlementsFilePath \in OwnPaths(ContextA)
  /\ fs[debugEntitlementsFilePath] # fsAtStart[debugEntitlementsFilePath]

\* C8: the document written to each file is the document that file held
\* (empty when it was missing or unreadable) with the associated-domains key
\* set from the host list; nothing of the other file enters it.
C8_DocumentsAreIndependent ==
  pc = "returned" =>
    \A p \in Targets :
      LET start == StartDocument(p)
      IN /\ OtherKeys(fs[p].dict) = OtherKeys(start)
         /\ \A k \in OtherKeys(start) : Get(fs[p].dict, k) = Get(start, k)
         /\ HasKey(fs[p].dict, ASSOCIATED_DOMAINS)
         /\ Get(fs[p].dict, ASSOCIATED_DOMAINS)
              = Arr(GenerateAssociatedDomainsContent(pluginPreferences))

C8_Witness ==
  /\ pc = "returned"
  /\ fsAtStart[releaseEntitlementsFilePath] = Missing
  /\ HasKey(fs[debugEntitlementsFilePath].dict, "aps-environment")
  /\ Keys(fs[releaseEntitlementsFilePath].dict) = {ASSOCIATED_DOMAINS}

\* the file-system calls of a complete invocation, in order
CallOrder ==
  << <<"read", DEBUG_FILE>>, <<"read", RELEASE_FILE>>,
     <<"mkpath", DEBUG_FILE>>, <<"mkpath", RELEASE_FILE>>,
     <<"write", DEBUG_FILE>>, <<"write", RELEASE_FILE>> >>

\* C9: the file-system calls of an invocation are a prefix of: read debug,
\* read release, mkpath debug, mkpath release, write debug, write release
\* (all six on successful completion); a write happens only after both
\* documents are loaded, merged and serialized and both directories ensured.
C9_CallOrder ==
  /\ Len(ops) <= Len(CallOrder)
  /\ \A i \in 1..Len(ops) :
       /\ <<ops[i].op, ops[i].path.file>> = CallOrder[i]
       /\ i < Len(ops) => (ops[i].ok \/ ops[i].op = "read")
  /\ Writes # {} =>
       /\ newDebugEntitlements # 0 /\ newReleaseEntitlements # 0
       /\ debugPlistContent = PlistBuild(heap[newDebugEntitlements])
       /\ releasePlistContent = PlistBuild(heap[newReleaseEntitlements])
       /\ \A p \in Targets : Dirname(p) \in dirs
  /\ pc = "returned" => (Len(ops) = Len(CallOrder) /\ \A i \in Writes : ops[i].ok)

C9_Witness ==
  /\ pc = "returned"
  /\ Len(ops) = 6
  /\ fsAtStart[debugEntitlementsFilePath] = Missing
  /\ fsAtStart[releaseEntitlementsFilePath] = Missing

\* C10: as long as the invocation has not reached its first write, also when
\* it has thrown before it, every file has the content it had at entry.
C10_NoWriteNoChange ==
  Writes = {} => fs = fsAtStart

C10_Witness ==
  /\ pc = "thrown"
  /\ error = "mkpath"
  /\ Len(ops) = 4
  /\ fsAtStart[debugEntitlementsFilePath] = Missing

====
